---- MODULE Spec2Model ----
(***************************************************************************)
(* plytodsm: a list of tiles, each with an extent sidecar and a ply point  *)
(* cloud, is flattened into one raster of per-cell running means           *)
(* (src/c/plytodsm.c).                                                     *)
(*                                                                         *)
(* Numbers.  World coordinates, the bounding box and the resolution are    *)
(* held in tenths of a metre (2.5 is 25).  The C code computes the cell    *)
(* index in double precision; the coordinates used here are either         *)
(* multiples of 0.5 (exact in binary) or far from a cell border, so the    *)
(* truncated quotient is the one the double computation gives.             *)
(* The images are float arrays.  A finite float is held as the integer     *)
(* number of units of 2^-23; the values that occur are 0 or lie in         *)
(* [1, 128), where every binary32 number is a whole number of such units,  *)
(* and every operation rounds to nearest, ties to even, as binary32 does.  *)
(* NaN stands for every non-finite float.                                  *)
(***************************************************************************)
EXTENDS Integers, Sequences, FiniteSets

----------------------------------------------------------------------------
(* Bounds of the model *)

\* tile directories read from the tile list in one run
MaxTiles == 2
\* complete records read from all point clouds in one run
MaxRecords == 2
\* samples fed to one cell when the running mean is checked on its own
MaxSamples == 3

----------------------------------------------------------------------------
(* binary32 arithmetic *)

Abs(a) == IF a < 0 THEN -a ELSE a

\* C's conversion of a quotient to int: truncation toward zero
TruncDiv(a, b) ==
    IF a = 0 THEN 0
    ELSE IF (a > 0) = (b > 0) THEN Abs(a) \div Abs(b)
    ELSE -(Abs(a) \div Abs(b))

floor(a, b) == IF b > 0 THEN a \div b ELSE (-a) \div (-b)

F32One == 2^23
F32(m, e) == m * 2^e
NaN == 0 - 1
isfinite(x) == x # NaN

RECURSIVE Ulp(_)
\* spacing of the binary32 numbers around x >= 1.0, in units
Ulp(x) == IF x < 2 * F32One THEN 1 ELSE 2 * Ulp(x \div 2)

\* the binary32 number nearest to num/den (units), ties to even
F32Round(num, den) ==
    IF num = 0 THEN 0
    ELSE LET g == Ulp(num \div den)
             k == num \div (den * g)
             r == num - k * den * g
         IN  IF 2 * r < den * g THEN k * g
             ELSE IF 2 * r > den * g THEN (k + 1) * g
             ELSE IF k % 2 = 0 THEN k * g ELSE (k + 1) * g

F32Mul(n, x) == IF x = NaN THEN NaN ELSE F32Round(n * x, 1)
F32Add(x, y) == IF x = NaN \/ y = NaN THEN NaN ELSE F32Round(x + y, 1)
F32Div(x, n) == IF x = NaN THEN NaN ELSE F32Round(x, n)


----------------------------------------------------------------------------
(* Inputs *)

\* resolution xmin xmax ymin ymax of the command line, in tenths.  The
\* second one has a negative resolution and a reversed box: nothing in
\* main() rejects it, and every quantity computed from it is defined.
Configs ==
    { [resolution |-> 10, xmin |-> 0, xmax |-> 100, ymin |-> 0, ymax |-> 100],
      [resolution |-> 0 - 10, xmin |-> 100, xmax |-> 0, ymin |-> 100, ymax |-> 0] }

\* values of the option -c: below the range, the height, a colour channel
Columns == {1, 2, 3}

\* the four floats of a plyextrema.txt: xmin xmax ymin ymax
Extents ==
    { <<0, 100, 0, 100>>, <<100, 200, 0, 100>>,
      <<0 - 200, 0 - 100, 0, 100>> }

\* the zone of a "comment projection: UTM" line, "none" when there is no
\* such line
Zones == {"31N", "32N"}
FileZones == Zones \cup {"none"}

\* What a tile directory holds: plyextrema.txt is missing, or starts with
\* k floats that fscanf can convert (4: well-formed); cloud.ply opens or
\* not, and declares a zone or none.
Tiles ==
    [sidecar : {"missing"}, k : {0}, ext : {<<0, 100, 0, 100>>},
     opens : BOOLEAN, zone : FileZones]
    \cup
    [sidecar : {"present"}, k : 0..4, ext : Extents,
     opens : BOOLEAN, zone : FileZones]

NoTile == [sidecar |-> "missing", k |-> 0, ext |-> <<0, 100, 0, 100>>,
           opens |-> FALSE, zone |-> "none"]

\* the format line and the property lines of a ply header
Headers ==
    { [format |-> "ascii", props |-> <<"float", "float", "float">>],
      [format |-> "binary_little_endian",
       props |-> <<"double", "double", "double", "uchar">>],
      [format |-> "binary_little_endian", props |-> <<"float", "float", "int">>],
      [format |-> "none", props |-> <<>>] }

\* positions of the points of a cloud (tenths)
Points ==
    { <<25, 25>>, <<26, 26>>, <<0, 100>>, <<0, 0>>, <<100, 50>>,
      <<0 - 5, 50>>, <<50, 105>> }

\* values of the selected column: binary32 numbers, in units of 2^-23
Heights == {F32(5, 23), F32(7, 23), NaN}
Colours == {F32(5, 23), F32(13, 22)}

ColumnValues(col) == IF col = 2 THEN Heights ELSE Colours

\* one decoded record: data[0], data[1] and data[col_idx]; the other
\* columns are never read
Records(col) == [x : {p[1] : p \in Points}, y : {p[2] : p \in Points},
                 v : ColumnValues(col)]

\* The two points inside the grid come with every value; of the others,
\* one comes with a value that is no number, and all with the first value.
PointRecords(col) ==
    {r \in Records(col) :
        /\ <<r.x, r.y>> \in Points
        /\ r.v = NaN => r.x \in {25, 0 - 5}
        /\ r.v \notin {F32(5, 23), NaN} => r.x \in {25, 26}}

NoData == [x |-> 0, y |-> 0, v |-> 0]
NoHeader == [n |-> 0, isbin |-> 0, t |-> <<>>]


----------------------------------------------------------------------------
(* The functions of plytodsm.c *)

\* the type and the length a property line gives
parse_property_line(typename) ==
    IF typename = "uchar" THEN [type |-> "UCHAR", len |-> 1]
    ELSE IF typename = "float" THEN [type |-> "FLOAT", len |-> 4]
    ELSE IF typename = "double" THEN [type |-> "DOUBLE", len |-> 8]
    ELSE [type |-> "UNKNOWN", len |-> 0]

\* variant: a zone already held is kept
header_keeping_zone(f, zone, utm_in) ==
    [n |-> Len(f.props),
     isbin |-> IF f.format = "binary_little_endian" THEN 1 ELSE 0,
     t |-> [i \in 1..Len(f.props) |-> parse_property_line(f.props[i]).type],
     utm |-> IF utm_in \in {"31N", "32N"} \/ zone = "none" THEN utm_in
             ELSE zone]

\* n, isbin, the property types, and utm: written only when the header
\* has a projection comment
header_get_record_length_and_utm_zone(f, zone, utm_in) ==
    [n |-> Len(f.props),
     isbin |-> IF f.format = "binary_little_endian" THEN 1 ELSE 0,
     t |-> [i \in 1..Len(f.props) |-> parse_property_line(f.props[i]).type],
     utm |-> IF zone # "none" THEN zone ELSE utm_in]

\* What the stream gives to one call of get_record: every field ("full"),
\* or, from field `at` on, a token that is no number ("bad") or the end of
\* the file ("eof").
ReadOutcomes(n) ==
    {[kind |-> "full", at |-> n + 1]}
    \cup [kind : {"bad", "eof"}, at : 1..n]

\* the number get_record returns
get_record(isbin, t, n, env) ==
    IF isbin = 1
    THEN \* one fread per property of a known type; none after the end
         Cardinality({i \in 1..n : t[i] # "UNKNOWN" /\ i < env.at})
    ELSE \* fscanf gives 1, then 0 at a token that is no number (it is never
         \* consumed), or EOF (-1), after which feof ends the loop
         IF env.kind = "eof" THEN (env.at - 1) - 1 ELSE env.at - 1

\* variant: index 0 is rejected
rescale_float_to_positive_int(xx, min, max, ww) ==
    LET r == TruncDiv(ww * (xx - min), max - min)
    IN  [r |-> r, flag |-> ~(r <= 0) /\ ~(r >= ww)]

rescale_float_to_int(xx, min, max, ww) ==
    LET r == TruncDiv(ww * (xx - min), max - min)
    IN  [r |-> r, flag |-> ~(r < 0) /\ ~(r >= ww)]

\* variant: the old mean is not weighted by its count
add_height_unweighted(img, i, j, v) ==
    LET k == img.w * j + i
        q == CHOOSE d \in { F32Div(s, 1 + img.cnt[k]) :
                              s \in {F32Add(v, img.avg[k])} } : TRUE
    IN  [img EXCEPT !.avg[k] = q, !.cnt[k] = img.cnt[k] + 1]

\* the images with value v folded into cell (i, j)
add_height_to_images(img, i, j, v) ==
    LET k == img.w * j + i
        \* (v + cnt * avg) / (1 + cnt), each operation rounded to a float
        \* in turn; the intermediate results are bound as values
        q == CHOOSE d \in { F32Div(s, 1 + img.cnt[k]) :
                              s \in { F32Add(v, p) :
                                        p \in {F32Mul(img.cnt[k], img.avg[k])} } } :
               TRUE
    IN  [img EXCEPT !.avg[k] = q, !.cnt[k] = img.cnt[k] + 1]

\* unsigned int rgb = data[col_idx]: the fraction is dropped
ToUnsigned(v) == (v \div F32One) * F32One

\* the two rectangles overlap
Overlaps(loc, b) ==
    /\ loc[1] <= b.xmax
    /\ loc[2] >= b.xmin
    /\ loc[3] <= b.ymax
    /\ loc[4] >= b.ymin

\* fscanf("%f %f %f %f") on a sidecar whose first k tokens are floats: the
\* first k variables are assigned, the others keep what they held
ReadExtrema(loc, t) == [i \in 1..4 |-> IF i <= t.k THEN t.ext[i] ELSE loc[i]]

\* lists.c
push(lst, s) == Append(lst, s)

\* variant: the height without the extra row
ImageHeightExact(b) == TruncDiv(b.ymax - b.ymin, b.resolution)

ImageWidth(b) == TruncDiv(b.resolution + (b.xmax - b.xmin), b.resolution)
ImageHeight(b) == TruncDiv(b.resolution + (b.ymax - b.ymin), b.resolution)

\* column and row of a record, with their flags
CellOf(d, b, img) ==
    [i |-> rescale_float_to_int(d.x, b.xmin, b.xmax, img.w),
     j |-> rescale_float_to_int(0 - d.y, 0 - b.ymax, 0 - b.ymin, img.h)]

InGrid(d, b, img) == CellOf(d, b, img).i.flag /\ CellOf(d, b, img).j.flag

\* a binary uchar property decodes to a whole number
Decodable(hd, col, v) ==
    IF hd.isbin = 1 /\ col + 1 <= hd.n
    THEN IF hd.t[col + 1] = "UCHAR" THEN v # NaN /\ v = ToUnsigned(v) ELSE TRUE
    ELSE TRUE

----------------------------------------------------------------------------
(* State *)

VARIABLES
    pc,       \* where the run is
    c,        \* argument count after pick_option
    listOK,   \* the tile list can be opened
    col_idx,
    cfg,      \* resolution and bounding box
    ntiles,   \* lines read from the tile list
    tile,     \* the tile directory of the current line
    local,    \* local_xmin, local_xmax, local_ymin, local_ymax
    ply_extrema_found,
    l,        \* the list of clouds to ingest
    utm,      \* main's utm
    x,        \* struct images
    hdr,      \* n, isbin, t of the cloud being read
    data,     \* the record being binned
    nread,    \* complete records read so far
    wrote,    \* iio_save_image_float was called
    meta,     \* what set_geotif_header was given
    zones,    \* history: what the header of each cloud pushed declares
    samples,  \* history: per cell, the records folded into it, in order
    feed      \* the two sample orders of the running-mean check

vars == <<pc, c, listOK, col_idx, cfg, ntiles, tile, local, ply_extrema_found,
          l, utm, x, hdr, data, nread, wrote, meta, zones, samples, feed>>

NoImages == [w |-> 0, h |-> 0, avg |-> [k \in {} |-> 0], cnt |-> [k \in {} |-> 0]]
NoMeta == [zone |-> "none", xoff |-> 0, yoff |-> 0, scale |-> 0]
NoFeed == [a |-> <<>>, b |-> <<>>]

\* what an uninitialised utm[3] may hold
AnyZone == {"32N", "??"}

Init ==
    /\ pc = "main"
    /\ c \in {7, 8}
    /\ listOK \in BOOLEAN
    /\ col_idx \in Columns
    /\ cfg \in Configs
    /\ ntiles = 0
    /\ tile = NoTile
    /\ local \in Extents
    /\ ply_extrema_found = FALSE
    /\ l = <<>>
    /\ utm \in AnyZone
    /\ x = NoImages
    /\ hdr = NoHeader
    /\ data = NoData
    /\ nread = 0
    /\ wrote = FALSE
    /\ meta = NoMeta
    /\ zones = <<>>
    /\ samples = [k \in {} |-> <<>>]
    /\ feed = NoFeed


----------------------------------------------------------------------------
(* main() *)

\* c != 8: help() and return 1
Usage ==
    /\ pc = "main"
    /\ c # 8
    /\ pc' = "exit"
    /\ UNCHANGED <<c, listOK, col_idx, cfg, ntiles, tile, local,
                   ply_extrema_found, l, utm, x, hdr, data, nread, wrote,
                   meta, zones, samples, feed>>

\* fopen(v[3]): return 1 when the tile list cannot be read
OpenList ==
    /\ pc = "main"
    /\ c = 8
    /\ pc' = IF listOK THEN "select" ELSE "exit"
    /\ UNCHANGED <<c, listOK, col_idx, cfg, ntiles, tile, local,
                   ply_extrema_found, l, utm, x, hdr, data, nread, wrote,
                   meta, zones, samples, feed>>

\* fgets gives one more tile directory; its plyextrema.txt is read
ReadExtremaFile ==
    /\ pc = "select"
    /\ ntiles < MaxTiles
    /\ \E t \in Tiles :
         /\ tile' = t
         /\ IF t.sidecar = "present"
            THEN /\ local' = ReadExtrema(local, t)
                 /\ ply_extrema_found' = TRUE
            ELSE /\ local' = local
                 /\ ply_extrema_found' = FALSE
    /\ ntiles' = ntiles + 1
    /\ pc' = "tile"
    /\ UNCHANGED <<c, listOK, col_idx, cfg, l, utm, x, hdr, data, nread,
                   wrote, meta, zones, samples, feed>>

\* the overlap test; the cloud that passes it and opens is pushed and its
\* header read into main's utm
TestTile ==
    /\ pc = "tile"
    /\ IF ply_extrema_found /\ Overlaps(local, cfg) /\ tile.opens
       THEN /\ l' = push(l, "cloud.ply")
            /\ zones' = Append(zones, tile.zone)
            /\ \E f \in Headers :
                 utm' = header_get_record_length_and_utm_zone(
                            f, tile.zone, utm).utm
       ELSE UNCHANGED <<l, zones, utm>>
    /\ tile' = NoTile
    /\ pc' = "select"
    /\ UNCHANGED <<c, listOK, col_idx, cfg, ntiles, local,
                   ply_extrema_found, x, hdr, data, nread, wrote, meta,
                   samples, feed>>

\* fgets gives NULL: the tile list is closed, the images are allocated and
\* zeroed.  What the loop over the tiles held is not read again.
Allocate ==
    /\ pc = "select"
    /\ LET ww == ImageWidth(cfg)
           hh == ImageHeight(cfg)
       IN  /\ x' = [w |-> ww, h |-> hh,
                    avg |-> [k \in 0..(ww * hh - 1) |-> 0],
                    cnt |-> [k \in 0..(ww * hh - 1) |-> 0]]
           /\ samples' = [k \in 0..(ww * hh - 1) |-> <<>>]
    /\ local' = <<0, 0, 0, 0>>
    /\ ply_extrema_found' = FALSE
    /\ ntiles' = 0
    /\ pc' = "ingest"
    /\ UNCHANGED <<c, listOK, col_idx, cfg, tile, l, utm, hdr, data,
                   nread, wrote, meta, zones, feed>>

----------------------------------------------------------------------------
(* add_ply_points_to_images() *)

\* fopen fails: a warning, and the next cloud
OpenFails ==
    /\ pc = "ingest"
    /\ l # <<>>
    /\ l' = Tail(l)
    /\ UNCHANGED <<pc, c, listOK, col_idx, cfg, ntiles, tile, local,
                   ply_extrema_found, utm, x, hdr, data, nread, wrote, meta,
                   zones, samples, feed>>

\* The header is read; the zone comparison only prints a message; then
\* col_idx is checked.
OpenCloud ==
    /\ pc = "ingest"
    /\ l # <<>>
    /\ l' = Tail(l)
    /\ \E f \in Headers, zone \in FileZones :
         LET hd == header_get_record_length_and_utm_zone(f, zone, utm)
         IN  hdr' = [n |-> hd.n, isbin |-> hd.isbin, t |-> hd.t]
    /\ pc' = IF col_idx < 2 \/ col_idx > 5 THEN "exit" ELSE "read"
    /\ UNCHANGED <<c, listOK, col_idx, cfg, ntiles, tile, local,
                   ply_extrema_found, utm, x, data, nread, wrote, meta,
                   zones, samples, feed>>

\* The test of the record loop, when get_record returns n and the loop
\* goes on.  With n = 0 it always does, and the body then reads data[]
\* beyond its end: any record.  A cloud holds at most MaxRecords records;
\* what is read beyond the end of data[] after that many falls outside the
\* grid.
ReadRecord ==
    /\ pc = "read"
    /\ get_record(hdr.isbin, hdr.t, hdr.n,
                  [kind |-> "full", at |-> hdr.n + 1]) = hdr.n
    /\ \E d \in PointRecords(col_idx) :
         /\ IF nread < MaxRecords THEN TRUE
            ELSE hdr.n = 0 /\ ~InGrid(d, cfg, x)
         /\ Decodable(hdr, col_idx, d.v)
         /\ data' = d
    /\ nread' = IF nread < MaxRecords THEN nread + 1 ELSE nread
    /\ pc' = "bin"
    /\ UNCHANGED <<c, listOK, col_idx, cfg, ntiles, tile, local,
                   ply_extrema_found, l, utm, x, hdr, wrote, meta, zones,
                   samples, feed>>

\* The test of the record loop, when get_record returns another number:
\* the file is closed.
EndOfRecords ==
    /\ pc = "read"
    /\ \E env \in ReadOutcomes(hdr.n) :
         get_record(hdr.isbin, hdr.t, hdr.n, env) # hdr.n
    /\ hdr' = NoHeader
    /\ pc' = "ingest"
    /\ UNCHANGED <<c, listOK, col_idx, cfg, ntiles, tile, local,
                   ply_extrema_found, l, utm, x, data, nread, wrote, meta,
                   zones, samples, feed>>

\* The body of the record loop: the cell is computed, and the value is
\* folded in when both flags are set; assert(isfinite(data[2])) comes
\* after the update.  The next call of get_record overwrites data[].
BinRecord ==
    /\ pc = "bin"
    /\ LET cell == CellOf(data, cfg, x)
           k == x.w * cell.j.r + cell.i.r
       IN  IF InGrid(data, cfg, x)
           THEN /\ x' = add_height_to_images(x, cell.i.r, cell.j.r,
                            IF col_idx = 2 THEN data.v ELSE ToUnsigned(data.v))
                /\ samples' = [samples EXCEPT ![k] = Append(@, data)]
                /\ pc' = IF col_idx = 2 /\ ~isfinite(data.v) THEN "abort"
                         ELSE "read"
           ELSE /\ UNCHANGED <<x, samples>>
                /\ pc' = "read"
    /\ data' = NoData
    /\ UNCHANGED <<c, listOK, col_idx, cfg, ntiles, tile, local,
                   ply_extrema_found, l, utm, hdr, nread, wrote, meta,
                   zones, feed>>

----------------------------------------------------------------------------
(* main(), after the clouds *)

\* the list is empty: cells with no sample become NAN
SetUnknown ==
    /\ pc = "ingest"
    /\ l = <<>>
    /\ x' = [x EXCEPT !.avg = [k \in DOMAIN x.avg |->
                                  IF x.cnt[k] = 0 THEN NaN ELSE x.avg[k]]]
    /\ pc' = "save"
    /\ UNCHANGED <<c, listOK, col_idx, cfg, ntiles, tile, local,
                   ply_extrema_found, l, utm, hdr, data, nread, wrote, meta,
                   zones, samples, feed>>

\* iio_save_image_float(out_dsm, x.avg, w, h)
SaveImage ==
    /\ pc = "save"
    /\ wrote' = TRUE
    /\ pc' = "geotiff"
    /\ UNCHANGED <<c, listOK, col_idx, cfg, ntiles, tile, local,
                   ply_extrema_found, l, utm, x, hdr, data, nread, meta,
                   zones, samples, feed>>

\* set_geotif_header(out_dsm, utm, xmin, ymax, resolution); return 0
SetGeotifHeader ==
    /\ pc = "geotiff"
    /\ meta' = [zone |-> utm, xoff |-> cfg.xmin, yoff |-> cfg.ymax,
                scale |-> cfg.resolution]
    /\ pc' = "done"
    /\ UNCHANGED <<c, listOK, col_idx, cfg, ntiles, tile, local,
                   ply_extrema_found, l, utm, x, hdr, data, nread, wrote,
                   zones, samples, feed>>

Next ==
    \/ Usage
    \/ OpenList
    \/ ReadExtremaFile
    \/ TestTile
    \/ Allocate
    \/ OpenFails
    \/ OpenCloud
    \/ ReadRecord
    \/ EndOfRecords
    \/ BinRecord
    \/ SetUnknown
    \/ SaveImage
    \/ SetGeotifHeader

Spec == Init /\ [][Next]_vars

\* Runs on the first box, with the uninitialised variables holding one
\* value.
FairInit ==
    /\ Init
    /\ cfg.resolution > 0
    /\ local = <<0, 100, 0, 100>>
    /\ utm = "??"

\* The program is one sequential process: it takes its next step as long as
\* it has one.
FairSpec == FairInit /\ [][Next]_vars /\ WF_vars(Next)

Terminated == pc \in {"done", "exit", "abort"}


----------------------------------------------------------------------------
(* add_height_to_images() on its own: two cells of a 2 x 1 image are fed   *)
(* the same samples in two orders.                                         *)

\* 5.0, 7.0, and the binary32 numbers nearest to 2.6, 5.3 and 7.7
MeanValues ==
    {F32(5, 23), F32(7, 23), F32(10905190, 1), F32(11114906, 2),
     F32(16148070, 2)}

Permutations(n) ==
    {q \in [1..n -> 1..n] : \A i \in 1..n : \E j \in 1..n : q[j] = i}

Feeds ==
    UNION { { [a |-> s, b |-> [i \in 1..n |-> s[q[i]]]] :
                s \in [1..n -> MeanValues], q \in Permutations(n) } :
            n \in 1..MaxSamples }

MeanInit ==
    /\ pc = "mean"
    /\ c = 8
    /\ listOK = TRUE
    /\ col_idx = 2
    /\ cfg \in {b \in Configs : b.resolution > 0}
    /\ ntiles = 0
    /\ tile = NoTile
    /\ local = <<0, 0, 0, 0>>
    /\ ply_extrema_found = FALSE
    /\ l = <<>>
    /\ utm = "??"
    /\ x = [w |-> 2, h |-> 1, avg |-> [k \in 0..1 |-> 0],
            cnt |-> [k \in 0..1 |-> 0]]
    /\ hdr = NoHeader
    /\ data = NoData
    /\ nread = 0
    /\ wrote = FALSE
    /\ meta = NoMeta
    /\ zones = <<>>
    /\ samples = [k \in 0..1 |-> <<>>]
    /\ feed \in Feeds

Sample(v) == [x |-> 0, y |-> 0, v |-> v]

\* one sample to cell (0, 0) and one to cell (1, 0)
MeanStep ==
    /\ pc = "mean"
    /\ feed.a # <<>>
    /\ x' = add_height_to_images(
                add_height_to_images(x, 0, 0, Head(feed.a)), 1, 0, Head(feed.b))
    /\ samples' = [samples EXCEPT ![0] = Append(@, Sample(Head(feed.a))),
                                  ![1] = Append(@, Sample(Head(feed.b)))]
    /\ feed' = [a |-> Tail(feed.a), b |-> Tail(feed.b)]
    /\ UNCHANGED <<pc, c, listOK, col_idx, cfg, ntiles, tile, local,
                   ply_extrema_found, l, utm, hdr, data, nread, wrote, meta,
                   zones>>

MeanNext == MeanStep

SpecMean == MeanInit /\ [][MeanNext]_vars


----------------------------------------------------------------------------
(* Properties *)

Idx(i, j) == x.w * j + i

\* the raster has been handed, or is about to be handed, to the writer
AtWriter == pc \in {"save", "geotiff", "done"}

RECURSIVE SumOf(_)
SumOf(q) == IF q = <<>> THEN 0 ELSE Head(q).v + SumOf(Tail(q))

RECURSIVE MaxOf(_)
MaxOf(q) ==
    IF q = <<>> THEN 0
    ELSE IF Head(q).v > MaxOf(Tail(q)) THEN Head(q).v ELSE MaxOf(Tail(q))

\* every record folded into some cell so far
Accumulated ==
    UNION {{samples[k][n] : n \in 1..Len(samples[k])} : k \in DOMAIN samples}

\* how many records were folded in so far
NumAccumulated ==
    Cardinality(UNION {{<<k, n>> : n \in 1..Len(samples[k])} :
                         k \in DOMAIN samples})

\* The scenario of C1: box (0,10,0,10), resolution 1, the height column,
\* and the records read in the whole run are the two points (2.5, 2.5, 5.0)
\* and (2.6, 2.6, 7.0), both folded in.
ExampleRun ==
    /\ AtWriter
    /\ cfg = [resolution |-> 10, xmin |-> 0, xmax |-> 100,
              ymin |-> 0, ymax |-> 100]
    /\ col_idx = 2
    /\ nread = 2
    /\ NumAccumulated = 2
    /\ Accumulated = { [x |-> 25, y |-> 25, v |-> F32(5, 23)],
                       [x |-> 26, y |-> 26, v |-> F32(7, 23)] }

OnlyCell(k, v) ==
    \A m \in DOMAIN x.avg : x.avg[m] = IF m = k THEN v ELSE NaN

\* C1, as claimed: in the example run the cell at column 2, row 7 is 6.0
\* and every other cell is NaN.
C1_ExampleRow7 == ExampleRun => OnlyCell(Idx(2, 7), F32(6, 23))

\* C1, amended: in the example run the cell at column 2, row 8 is 6.0 and
\* every other cell is NaN.
C1_ExampleRow8 == ExampleRun => OnlyCell(Idx(2, 8), F32(6, 23))

C1_Witness == ExampleRun /\ pc = "done"

\* the cell the claimed mapping gives: floor, not truncation
FloorCol(d) == floor(x.w * (d.x - cfg.xmin), cfg.xmax - cfg.xmin)
FloorRow(d) == floor(x.h * (cfg.ymax - d.y), cfg.ymax - cfg.ymin)
FloorInBounds(d) ==
    /\ 0 <= FloorCol(d) /\ FloorCol(d) < x.w
    /\ 0 <= FloorRow(d) /\ FloorRow(d) < x.h

\* the step folds one sample into cell k and touches nothing else
FoldsInto(k) ==
    /\ x'.cnt = [x.cnt EXCEPT ![k] = @ + 1]
    /\ \A m \in DOMAIN x.avg : m # k => x'.avg[m] = x.avg[m]

\* C2, as claimed: a record is folded in, into exactly cell
\* (floor col, floor row), if and only if that cell is in the grid;
\* otherwise no mean and no count changes.
C2_FoldedIffInBounds ==
    [][pc = "bin" =>
         IF FloorInBounds(data)
         THEN FoldsInto(Idx(FloorCol(data), FloorRow(data)))
         ELSE x' = x]_vars

\* C3, as claimed: a point at (xmin, ymin) is folded into cell (0, h-1);
\* a point with x = xmax or y = ymax is not folded in.
C3_LowerLeftIncluded ==
    [][pc = "bin" =>
         /\ (data.x = cfg.xmin /\ data.y = cfg.ymin) => FoldsInto(Idx(0, x.h - 1))
         /\ (data.x = cfg.xmax \/ data.y = cfg.ymax) => x' = x]_vars

\* C3, amended: a point at (xmin, ymax) is folded into cell (0, 0); a
\* point with x = xmax or y = ymin is not folded in.
C3_UpperLeftIncluded ==
    [][pc = "bin" =>
         /\ (data.x = cfg.xmin /\ data.y = cfg.ymax) => FoldsInto(Idx(0, 0))
         /\ (data.x = cfg.xmax \/ data.y = cfg.ymin) => x' = x]_vars

\* a point at (xmin, ymax) is in cell (0, 0) and a point on the right or
\* the lower edge is about to be binned
C3_Witness ==
    /\ pc = "bin"
    /\ data.x = cfg.xmax \/ data.y = cfg.ymin
    /\ \E n \in 1..Len(samples[Idx(0, 0)]) :
         /\ samples[Idx(0, 0)][n].x = cfg.xmin
         /\ samples[Idx(0, 0)][n].y = cfg.ymax

\* C4, as claimed: a tile's cloud is pushed if and only if its own sidecar
\* holds four floats, that extent overlaps the box, and the cloud opens.
C4_PushedIffOwnExtent ==
    [][pc = "tile" =>
         (Len(l') = Len(l) + 1
            <=> /\ tile.sidecar = "present"
                /\ tile.k = 4
                /\ Overlaps(tile.ext, cfg)
                /\ tile.opens)]_vars

FatalConfig ==
    \/ c # 8
    \/ ~listOK
    \/ col_idx < 2 \/ col_idx > 5
    \/ cfg.resolution <= 0
    \/ cfg.xmin >= cfg.xmax
    \/ cfg.ymin >= cfg.ymax

\* C5, as claimed: with a fatal configuration neither writer is invoked
\* and the run does not return 0.
C5_FatalWritesNothing ==
    FatalConfig => (~wrote /\ meta = NoMeta /\ pc # "done")

\* C6, as claimed: with a valid configuration the run neither exits nor
\* fails an assertion.
C6_NoAbort == ~FatalConfig => pc \notin {"abort", "exit"}

\* C10, as claimed: every run terminates.
C10_Terminates == <>Terminated

\* what the cell received for record d: the value of the selected column,
\* through unsigned int for the colour columns
Whole(v) == v - (v % F32One)

Folded(d) == IF col_idx = 2 THEN d.v ELSE Whole(d.v)

RECURSIVE SumFolded(_)
SumFolded(q) == IF q = <<>> THEN 0 ELSE Folded(Head(q)) + SumFolded(Tail(q))

\* a is within 4 * n ulps of the largest sample of sum / n
NearMean(a, sum, n, largest) ==
    Abs(n * a - sum) <= 4 * n * n * Ulp(largest)

C8_MeanOfColumn ==
    pc = "save" =>
        \A k \in DOMAIN x.avg :
            IF samples[k] = <<>> THEN x.avg[k] = NaN /\ x.cnt[k] = 0
            ELSE /\ x.avg[k] # NaN
                 /\ NearMean(x.avg[k], SumOf(samples[k]), Len(samples[k]),
                             MaxOf(samples[k]))

\* C8, what the raster holds instead: the mean of the values as folded
\* in, the colour columns having lost their fraction.
C8_MeanOfFolded ==
    pc = "save" =>
        \A k \in DOMAIN x.avg :
            IF samples[k] = <<>> THEN x.avg[k] = NaN /\ x.cnt[k] = 0
            ELSE /\ x.avg[k] # NaN
                 /\ x.cnt[k] = Len(samples[k])
                 /\ NearMean(x.avg[k], SumFolded(samples[k]),
                             Len(samples[k]), MaxOf(samples[k]))

\* the zones declared so far by the clouds pushed
Declared == {i \in 1..Len(zones) : zones[i] \in Zones}

LastDeclared == zones[CHOOSE i \in Declared : \A j \in Declared : j <= i]

\* C9, as claimed: once a cloud was pushed whose header declares a zone,
\* the zone of the run is the one the first cloud pushed declares, and it
\* is the one given to set_geotif_header.
C9_FirstZoneKept ==
    (zones # <<>> /\ zones[1] \in Zones) =>
        /\ utm = zones[1]
        /\ pc = "done" => meta.zone = zones[1]

\* C9, amended: the zone of the run is the one declared by the last cloud
\* pushed that declares one; no header read afterwards changes it, and it
\* is the one given to set_geotif_header.
C9_LastZoneKept ==
    Declared # {} =>
        /\ utm = LastDeclared
        /\ pc = "done" => meta.zone = LastDeclared

\* two clouds declaring two zones were pushed and the run is done
C9_Witness ==
    /\ pc = "done"
    /\ Len(zones) = 2
    /\ zones[1] = "31N"
    /\ zones[2] = "32N"

====
